---- MODULE Spec2Model ----
(***************************************************************************)
(* Model of scripts/data_preprocessing.py: load_data, clean_data,          *)
(* feature_engineering, split_by_region, save_processed_data and main.     *)
(*                                                                         *)
(* A DataFrame is a record of its column names (in order), the dtype of    *)
(* each column, its row index and the cells of each column.  A numeric     *)
(* cell holds its value as an integer number of 1/Unit, so that medians,   *)
(* linearly interpolated quartiles, the 1.5*IQR bounds and the weighted    *)
(* indices of the model's inputs are all exact.  NaN is a cell of its own  *)
(* whose arithmetic and comparisons follow IEEE 754 as pandas applies it   *)
(* (NaN propagates, every comparison with NaN is false).                   *)
(*                                                                         *)
(* Library semantics are those of pandas 1.x / 2.x: a chained              *)
(* `df[col].fillna(v, inplace=True)` writes through to df, and a float     *)
(* assigned into an int64 column upcasts the column to float64.            *)
(***************************************************************************)
EXTENDS Integers, Sequences, FiniteSets, TLC

VARIABLES
  entry,        \* "script": run as __main__ (line 198); "import": imported as a module
  file,         \* what is at input_file (line 178)
  pc,           \* main's position
  df,           \* main's local df (line 182)
  cleaned_df,   \* main's local cleaned_df (line 188)
  processed_df, \* main's local processed_df (line 191)
  output_file,  \* what is at output_file (line 179)
  log,          \* what has been printed
  calls,        \* how often each function has been invoked
  exc,          \* the exception that ended main, "" if none
  arg,          \* the DataFrame an importing caller passes
  fn,           \* the function the importing caller has called, "none" before
  ret,          \* what that call returned or raised
  filled_df     \* clean_data's local cleaned_df once the fill loop is over (line 68)

vars == <<entry, file, pc, df, cleaned_df, processed_df, output_file, log,
          calls, exc, arg, fn, ret, filled_df>>

\* ------------------------------------------------------------------ bounds
MaxRows == 4

MaxFileRows == 2

\* Numeric cells count in units of 1/Unit.
Unit == 16 * 1000

\* ------------------------------------------------------------------- cells
Num(n) == [k |-> "num", n |-> n, s |-> ""]

Str(s) == [k |-> "str", n |-> 0, s |-> s]

NaN == [k |-> "nan", n |-> 0, s |-> ""]

Val(v) == Num(v * Unit)

IsNull(c) == c.k = "nan"

\* IEEE comparisons as pandas applies them elementwise: false when either is NaN.
Lt(a, b) == a.k = "num" /\ b.k = "num" /\ a.n < b.n

Gt(a, b) == a.k = "num" /\ b.k = "num" /\ a.n > b.n

\* Arithmetic on numeric cells; NaN propagates.
Add(a, b) == IF a.k = "num" /\ b.k = "num" THEN Num(a.n + b.n) ELSE NaN

Sub(a, b) == IF a.k = "num" /\ b.k = "num" THEN Num(a.n - b.n) ELSE NaN

\* a * (p / q) for a literal p/q of the source (0.3 is 3/10, 0.4 is 2/5, 1.5 is 3/2).
Scale(a, p, q) == IF a.k = "num" THEN Num((a.n * p) \div q) ELSE NaN

\* a // d for a literal integer d: floor division.
FloorDiv(a, d) == IF a.k = "num" THEN Num((a.n \div (d * Unit)) * Unit) ELSE NaN

\* ------------------------------------------------------------- sequences
Range(s) == {s[i] : i \in 1..Len(s)}

Contains(s, x) == \E i \in 1..Len(s) : s[i] = x

IsUnique(s) == \A i, j \in 1..Len(s) : s[i] = s[j] => i = j

\* The positions of s whose element satisfies the mask, in order.
RECURSIVE Positions(_, _)
Positions(mask, i) ==
  IF i > Len(mask) THEN <<>>
  ELSE (IF mask[i] THEN <<i>> ELSE <<>>) \o Positions(mask, i + 1)

\* ------------------------------------------------------------ DataFrames
NoFrame == [none |-> TRUE, columns |-> <<>>, dtype |-> <<>>, index |-> <<>>, data |-> <<>>]

Frame(cols, dtype, index, data) ==
  [none |-> FALSE, columns |-> cols, dtype |-> dtype, index |-> index, data |-> data]

NRows(f) == Len(f.index)

HasColumn(f, c) == Contains(f.columns, c)

\* Assignment that takes the place of the frame's last column instead of appending.
SetColumnOverLast(f, c, dt, values) ==
  LET kept == SubSeq(f.columns, 1, Len(f.columns) - 1) IN
  [f EXCEPT !.columns = Append(kept, c),
            !.dtype = (c :> dt) @@ [x \in Range(kept) |-> f.dtype[x]],
            !.data = (c :> values) @@ [x \in Range(kept) |-> f.data[x]]]

\* df[col] = values: an existing column is overwritten in place, a new one is appended.
SetColumn(f, c, dt, values) ==
  IF HasColumn(f, c)
  THEN [f EXCEPT !.dtype[c] = dt, !.data[c] = values]
  ELSE [f EXCEPT !.columns = Append(f.columns, c),
                 !.dtype = (c :> dt) @@ f.dtype,
                 !.data = (c :> values) @@ f.data]

\* df[mask]: the rows the boolean mask selects, with their index labels.
Filter(f, mask) ==
  LET keep == Positions(mask, 1) IN
  [f EXCEPT !.index = [i \in 1..Len(keep) |-> f.index[keep[i]]],
            !.data = [c \in DOMAIN f.data |-> [i \in 1..Len(keep) |-> f.data[c][keep[i]]]]]

NoRegions == [coastal |-> NoFrame, northern |-> NoFrame, central |-> NoFrame, other |-> NoFrame]

\* What a call gives back: a value (a frame, or split_by_region's dict), or an exception.
Ok(v) == [ok |-> TRUE, val |-> v, regions |-> NoRegions, exc |-> ""]

OkRegions(r) == [ok |-> TRUE, val |-> NoFrame, regions |-> r, exc |-> ""]

Raise(e) == [ok |-> FALSE, val |-> NoFrame, regions |-> NoRegions, exc |-> e]

NoCall == Raise("not called")

\* ------------------------------------------------------- pandas: Series
NullCount(s) == Cardinality({i \in 1..Len(s) : IsNull(s[i])})

\* The non-missing numbers of a Series, ascending.
SortedValues(s) ==
  LET keep == Positions([i \in 1..Len(s) |-> s[i].k = "num"], 1) IN
  SortSeq([i \in 1..Len(keep) |-> s[keep[i]].n], LAMBDA a, b : a < b)

\* Median with the even case forgotten: always the upper middle value.
MedianUpperMiddle(s) ==
  LET v == SortedValues(s)
      n == Len(v)
  IN IF n = 0 THEN NaN ELSE Num(v[n \div 2 + 1])

\* Series.median(): NaN skipped; the mean of the two middle values when even.
Median(s) ==
  LET v == SortedValues(s)
      n == Len(v)
  IN IF n = 0 THEN NaN
     ELSE IF n % 2 = 1 THEN Num(v[(n + 1) \div 2])
     ELSE Num((v[n \div 2] + v[n \div 2 + 1]) \div 2)

\* Series.quantile(p/q), interpolation='linear': position (n-1)*p/q in the sorted
\* non-missing values, interpolated between its two neighbours.
Quantile(s, p, q) ==
  LET v == SortedValues(s)
      n == Len(v)
      pos == p * (n - 1)
      lo == pos \div q
      fr == pos % q
      hi == IF lo + 2 <= n THEN lo + 2 ELSE n
  IN IF n = 0 THEN NaN
     ELSE Num(v[lo + 1] + ((v[hi] - v[lo + 1]) * fr) \div q)

\* Code-point order of the strings the model uses ("'" < 's', 'C' < 'D' < 'R' < 'd').
StringOrder == <<"Cox's Bazar", "Coxs Bazar", "Dhaka", "Rangpur", "dhaka">>

Rank(str) == CHOOSE i \in 1..Len(StringOrder) : StringOrder[i] = str

Count(s, c) == Cardinality({i \in 1..Len(s) : s[i] = c})

SortKey(c) == IF c.k = "str" THEN Rank(c.s) ELSE c.n

RECURSIVE Ascending(_)
Ascending(cells) ==
  IF cells = {} THEN <<>>
  ELSE LET least == CHOOSE c \in cells : \A d \in cells : SortKey(c) <= SortKey(d)
       IN <<least>> \o Ascending(cells \ {least})

\* Series.mode(): the most frequent non-missing values, sorted ascending; an empty
\* Series when every cell is missing.
Mode(s) ==
  LET present == {c \in Range(s) : ~IsNull(c)}
  IN Ascending({c \in present : \A d \in present : Count(s, d) <= Count(s, c)})

\* Series.fillna(value): every missing cell becomes value.
FillNa(s, value) == [i \in 1..Len(s) |-> IF IsNull(s[i]) THEN value ELSE s[i]]


\* ---------------------------------------------------------------- load_data
FileOk(columns, data) == [status |-> "ok", columns |-> columns, data |-> data]

FileBad(why) == [status |-> why, columns |-> <<>>, data |-> <<>>]

\* The dtype pd.read_csv infers for a column of parsed cells: object as soon as one
\* cell is text or the file has no data row; int64 when every cell is a whole number; float64 otherwise (a
\* missing cell is NaN, so a column of empty cells is float64).
InferDtype(s) ==
  IF Len(s) = 0 THEN "object"
  ELSE IF \E i \in 1..Len(s) : s[i].k = "str" THEN "object"
  ELSE IF \A i \in 1..Len(s) : s[i].k = "num" /\ s[i].n % Unit = 0 THEN "int64"
  ELSE "float64"

\* pd.read_csv(filepath): raises when the file is missing or malformed.
read_csv(f) ==
  IF f.status # "ok" THEN Raise(f.status)
  ELSE LET n == IF Len(f.columns) = 0 THEN 0 ELSE Len(f.data[f.columns[1]])
       IN Ok(Frame(f.columns,
                   [c \in DOMAIN f.data |-> InferDtype(f.data[c])],
                   [i \in 1..n |-> i - 1],
                   f.data))

\* load_data: the frame, or None with the reason printed; nothing propagates.
load_data(f) ==
  LET r == read_csv(f) IN
  IF r.ok THEN [ret |-> Ok(r.val), out |-> <<"Dataset loaded successfully">>]
  ELSE [ret |-> Ok(NoFrame), out |-> <<"Error loading dataset">>]

\* --------------------------------------------------------------- clean_data
IsNumericDtype(dt) == dt \in {"int64", "float64"}

\* One pass of the fill loop (lines 61-67), on column c of frame f.
FillColumn(f, c) ==
  LET s == f.data[c] IN
  IF NullCount(s) > 0
  THEN IF IsNumericDtype(f.dtype[c])
       THEN Ok([f EXCEPT !.data[c] = FillNa(s, Median(s))])
       ELSE LET m == Mode(s) IN
            IF Len(m) = 0 THEN Raise("KeyError")   \* mode()[0] of an empty Series
            ELSE Ok([f EXCEPT !.data[c] = FillNa(s, m[1])])
  ELSE Ok(f)

\* The fill loop (lines 60-67) from column i on; the first exception ends it.
RECURSIVE FillLoop(_, _)
FillLoop(f, i) ==
  IF i > Len(f.columns) THEN Ok(f)
  ELSE LET r == FillColumn(f, f.columns[i]) IN
       IF r.ok THEN FillLoop(r.val, i + 1) ELSE r

LowerBound(Q1, Q3) == Sub(Q1, Scale(Sub(Q3, Q1), 3, 2))

\* The upper bound with the 1.5 factor forgotten.
UpperBoundNoFactor(Q1, Q3) == Add(Q3, Sub(Q3, Q1))

UpperBound(Q1, Q3) == Add(Q3, Scale(Sub(Q3, Q1), 3, 2))

\* df.loc[mask, col] = value (lines 79, 80): the masked cells take the value; an
\* int64 column that receives a fractional value becomes float64.
LocAssign(f, c, mask, value) ==
  LET hit == \E i \in 1..Len(mask) : mask[i] IN
  [f EXCEPT !.data[c] = [i \in 1..Len(mask) |-> IF mask[i] THEN value ELSE f.data[c][i]],
            !.dtype[c] = IF hit /\ f.dtype[c] = "int64" /\ value.n % Unit # 0
                         THEN "float64" ELSE f.dtype[c]]

\* One pass of the outlier loop (lines 72-80), on column c of frame f.
ClipColumn(f, c) ==
  LET Q1 == Quantile(f.data[c], 1, 4)
      Q3 == Quantile(f.data[c], 3, 4)
      lower_bound == LowerBound(Q1, Q3)
      upper_bound == UpperBound(Q1, Q3)
      low == LocAssign(f, c, [i \in 1..NRows(f) |-> Lt(f.data[c][i], lower_bound)], lower_bound)
  IN LocAssign(low, c, [i \in 1..NRows(f) |-> Gt(low.data[c][i], upper_bound)], upper_bound)

\* The outlier loop (lines 70-80) from column i on: select_dtypes takes the columns
\* that are int64 or float64 when the loop starts.
RECURSIVE ClipLoop(_, _, _)
ClipLoop(f, numeric_cols, i) ==
  IF i > Len(numeric_cols) THEN f
  ELSE ClipLoop(ClipColumn(f, numeric_cols[i]), numeric_cols, i + 1)

NumericCols(f) ==
  LET keep == Positions([i \in 1..Len(f.columns) |-> IsNumericDtype(f.dtype[f.columns[i]])], 1)
  IN [i \in 1..Len(keep) |-> f.columns[keep[i]]]

\* clean_data(df): [ret, filled, out]; filled is the local cleaned_df at line 68.
clean_data(f) ==
  LET filled == FillLoop(f, 1) IN
  IF f.none   \* None.copy(), line 53
  THEN [ret |-> Raise("AttributeError"), filled |-> NoFrame, out |-> <<>>]
  ELSE IF filled.ok
  THEN [ret |-> Ok(ClipLoop(filled.val, NumericCols(filled.val), 1)),
        filled |-> filled.val,
        out |-> <<"Missing values before cleaning">>]
  ELSE [ret |-> filled, filled |-> NoFrame, out |-> <<"Missing values before cleaning">>]

\* ------------------------------------------------------ feature_engineering
\* (Year // 10) * 10, line 102.
Decade(year) == Scale(FloorDiv(year, 10), 10, 1)

\* The weights in the wrong order.
ClimateRiskScoreSwapped(flood, drought, cyclone) ==
  Add(Add(Scale(flood, 2, 5), Scale(drought, 3, 10)), Scale(cyclone, 3, 10))

\* Lines 105-109.
ClimateRiskScore(flood, drought, cyclone) ==
  Add(Add(Scale(flood, 3, 10), Scale(drought, 3, 10)), Scale(cyclone, 2, 5))

\* Lines 112-116.
EnvironmentalHealthIndex(forest, aqi, renewable) ==
  Scale(Add(Add(Scale(forest, 2, 5), Scale(Sub(Val(100), aqi), 3, 10)),
            Scale(renewable, 3, 10)),
        1, 100)

\* The result dtype of arithmetic between a column and int literals / float literals.
IntResultDtype(dt) == IF dt = "int64" THEN "int64" ELSE "float64"

season_bins == <<0, 2, 5, 8, 11, 12>>

season_labels == <<"Winter", "Spring", "Summer", "Autumn", "Winter">>

\* The bin of x among right-closed intervals (bins[j], bins[j+1]], the first one
\* closed on the left as well under include_lowest; 0 when x is in none.
BinOf(x, bins, include_lowest) ==
  IF x.k # "num" THEN 0
  ELSE IF include_lowest /\ x.n = bins[1] * Unit THEN 1
  ELSE IF \E j \in 1..(Len(bins) - 1) : bins[j] * Unit < x.n /\ x.n <= bins[j + 1] * Unit
  THEN CHOOSE j \in 1..(Len(bins) - 1) : bins[j] * Unit < x.n /\ x.n <= bins[j + 1] * Unit
  ELSE 0

\* pd.cut(x, bins, labels, include_lowest) with the default ordered=True: labels
\* that are not unique raise ValueError; otherwise each value gets its bin's label
\* and a value outside every bin is missing.
cut(x, bins, labels, include_lowest) ==
  IF ~IsUnique(labels) THEN Raise("ValueError")
  ELSE Ok([i \in 1..Len(x) |->
             LET b == BinOf(x[i], bins, include_lowest)
             IN IF b = 0 THEN NaN ELSE Str(labels[b])])

FeatureInputs == <<"Year", "Flood_Impact_Score", "Drought_Severity", "Cyclone_Count",
                   "Forest_Cover_Percent", "AQI", "Renewable_Energy_Usage_Percent">>

\* Lines 102-116: the three unconditional columns.
AddIndices(f) ==
  LET n == NRows(f)
      d == f.data
      withDecade ==
        SetColumn(f, "Decade", IntResultDtype(f.dtype["Year"]),
                  [i \in 1..n |-> Decade(d["Year"][i])])
      withRisk ==
        SetColumn(withDecade, "Climate_Risk_Score", "float64",
                  [i \in 1..n |-> ClimateRiskScore(d["Flood_Impact_Score"][i],
                                                   d["Drought_Severity"][i],
                                                   d["Cyclone_Count"][i])])
  IN SetColumn(withRisk, "Environmental_Health_Index", "float64",
               [i \in 1..n |-> EnvironmentalHealthIndex(d["Forest_Cover_Percent"][i],
                                                        d["AQI"][i],
                                                        d["Renewable_Energy_Usage_Percent"][i])])

\* feature_engineering(df): a column the formulas read and the frame lacks raises
\* KeyError; Season is derived only when Month is a column.
feature_engineering(f) ==
  IF f.none THEN Raise("AttributeError")   \* None.copy(), line 99
  ELSE IF \E i \in 1..Len(FeatureInputs) : ~HasColumn(f, FeatureInputs[i])
  THEN Raise("KeyError")
  ELSE LET engineered_df == AddIndices(f) IN
       IF HasColumn(engineered_df, "Month")
       THEN LET season == cut(engineered_df.data["Month"], season_bins, season_labels, TRUE)
            IN IF season.ok
               THEN Ok(SetColumn(engineered_df, "Season", "category", season.val))
               ELSE Raise(season.exc)
       ELSE Ok(engineered_df)

\* ---------------------------------------------------------- split_by_region
coastal_districts ==
  <<"Cox's Bazar", "Chattogram", "Khulna", "Barishal", "Satkhira", "Patuakhali">>

northern_districts ==
  <<"Rangpur", "Rajshahi", "Dinajpur", "Bogura", "Panchagarh", "Thakurgaon">>

central_districts == <<"Dhaka", "Gazipur", "Narayanganj", "Tangail", "Mymensingh">>

\* Series.isin(values): exact equality with one of the values; a missing cell is in none.
isin(s, values) == [i \in 1..Len(s) |-> s[i].k = "str" /\ Contains(values, s[i].s)]

Not(mask) == [i \in 1..Len(mask) |-> ~mask[i]]

\* 'other' computed without the central list.
split_by_region_other_without_central(f) ==
  IF f.none THEN Raise("TypeError")
  ELSE IF ~HasColumn(f, "District") THEN Raise("KeyError")
  ELSE LET district == f.data["District"] IN
       OkRegions(
          [coastal |-> Filter(f, isin(district, coastal_districts)),
           northern |-> Filter(f, isin(district, northern_districts)),
           central |-> Filter(f, isin(district, central_districts)),
           other |-> Filter(f, Not(isin(district, coastal_districts \o northern_districts)))])

\* split_by_region(df): KeyError without a District column.
split_by_region(f) ==
  IF f.none THEN Raise("TypeError")   \* None['District'], line 150
  ELSE IF ~HasColumn(f, "District") THEN Raise("KeyError")
  ELSE LET district == f.data["District"] IN
       OkRegions(
          [coastal |-> Filter(f, isin(district, coastal_districts)),
           northern |-> Filter(f, isin(district, northern_districts)),
           central |-> Filter(f, isin(district, central_districts)),
           other |-> Filter(f, Not(isin(district, coastal_districts \o northern_districts
                                                    \o central_districts)))])

\* ------------------------------------------------------ save_processed_data
NoFile == FileBad("absent")

\* df.to_csv(output_path, index=False): the header and the cells, without the index
\* and without the dtypes; raises when the destination cannot be written.
to_csv(f, writable) ==
  IF writable THEN [ok |-> TRUE, file |-> FileOk(f.columns, f.data), exc |-> ""]
  ELSE [ok |-> FALSE, file |-> NoFile, exc |-> "OSError"]

\* save_processed_data without its try/except: to_csv's exception propagates.
save_processed_data_uncaught(f, writable) ==
  LET r == to_csv(f, writable) IN
  IF r.ok THEN [written |-> TRUE, file |-> r.file,
                out |-> <<"Processed data saved">>, raised |-> ""]
  ELSE [written |-> FALSE, file |-> NoFile, out |-> <<>>, raised |-> r.exc]

\* save_processed_data: to_csv's exception is caught and reported; raised is what
\* propagates to the caller.
save_processed_data(f, writable) ==
  LET r == to_csv(f, writable) IN
  IF r.ok THEN [written |-> TRUE, file |-> r.file,
                out |-> <<"Processed data saved">>, raised |-> ""]
  ELSE [written |-> FALSE, file |-> NoFile,
        out |-> <<"Error saving processed data">>, raised |-> ""]

\* --------------------------------------------------------------------- main
Functions == {"load_data", "clean_data", "feature_engineering", "save_processed_data",
              "split_by_region"}

Called(name) == [calls EXCEPT ![name] = @ + 1]

\* main without the check for None.
AfterLoadUnchecked(d) == "loaded"

\* Lines 183-184: main returns when load_data gave None.
AfterLoad(d) == IF d.none THEN "done" ELSE "loaded"

\* Lines 182-184.
LoadStep ==
  /\ entry = "script" /\ pc = "start"
  /\ LET r == load_data(file) IN
       /\ df' = r.ret.val
       /\ log' = log \o r.out
       /\ pc' = AfterLoad(r.ret.val)
  /\ calls' = Called("load_data")
  /\ UNCHANGED <<entry, file, cleaned_df, processed_df, output_file, exc, arg, fn, ret,
                 filled_df>>

\* Lines 187-188.
CleanStep ==
  /\ entry = "script" /\ pc = "loaded"
  /\ LET r == clean_data(df) IN
       /\ log' = log \o <<"Cleaning data...">> \o r.out
       /\ filled_df' = r.filled
       /\ cleaned_df' = r.ret.val
       /\ pc' = IF r.ret.ok THEN "cleaned" ELSE "crashed"
       /\ exc' = r.ret.exc
  /\ calls' = Called("clean_data")
  /\ UNCHANGED <<entry, file, df, processed_df, output_file, arg, fn, ret>>

\* Lines 190-191.
EngineerStep ==
  /\ entry = "script" /\ pc = "cleaned"
  /\ LET r == feature_engineering(cleaned_df) IN
       /\ log' = log \o <<"Engineering features...">>
       /\ processed_df' = r.val
       /\ pc' = IF r.ok THEN "engineered" ELSE "crashed"
       /\ exc' = r.exc
  /\ calls' = Called("feature_engineering")
  /\ UNCHANGED <<entry, file, df, cleaned_df, output_file, arg, fn, ret, filled_df>>

\* Line 194; whether the destination can be written is the environment's choice.
SaveStep ==
  /\ entry = "script" /\ pc = "engineered"
  /\ \E writable \in BOOLEAN :
       LET r == save_processed_data(processed_df, writable) IN
         /\ log' = log \o r.out
         /\ output_file' = IF r.written THEN r.file ELSE output_file
         /\ pc' = IF r.raised = "" THEN "saved" ELSE "crashed"
         /\ exc' = r.raised
  /\ calls' = Called("save_processed_data")
  /\ UNCHANGED <<entry, file, df, cleaned_df, processed_df, arg, fn, ret, filled_df>>

\* Line 196.
FinishStep ==
  /\ entry = "script" /\ pc = "saved"
  /\ log' = log \o <<"Preprocessing completed successfully!">>
  /\ pc' = "done"
  /\ UNCHANGED <<entry, file, df, cleaned_df, processed_df, output_file, calls, exc, arg,
                 fn, ret, filled_df>>

\* ------------------------------------------- calls by an importing module
CallCleanData ==
  /\ entry = "import" /\ fn = "none"
  /\ LET r == clean_data(arg) IN
       /\ ret' = r.ret
       /\ filled_df' = r.filled
       /\ log' = log \o r.out
  /\ fn' = "clean_data"
  /\ calls' = Called("clean_data")
  /\ UNCHANGED <<entry, file, pc, df, cleaned_df, processed_df, output_file, exc, arg>>

CallFeatureEngineering ==
  /\ entry = "import" /\ fn = "none"
  /\ ret' = feature_engineering(arg)
  /\ fn' = "feature_engineering"
  /\ calls' = Called("feature_engineering")
  /\ UNCHANGED <<entry, file, pc, df, cleaned_df, processed_df, output_file, log, exc, arg,
                 filled_df>>

CallSplitByRegion ==
  /\ entry = "import" /\ fn = "none"
  /\ ret' = split_by_region(arg)
  /\ fn' = "split_by_region"
  /\ calls' = Called("split_by_region")
  /\ UNCHANGED <<entry, file, pc, df, cleaned_df, processed_df, output_file, log, exc, arg,
                 filled_df>>

\* ------------------------------------------------------------------- inputs
InputColumns == <<"Year", "District", "Flood_Impact_Score", "Drought_Severity",
                  "Cyclone_Count", "Forest_Cover_Percent", "AQI",
                  "Renewable_Energy_Usage_Percent">>

Row(year, district, flood, drought, cyclone, forest, aqi, renewable) ==
  [c \in Range(InputColumns) |->
     CASE c = "Year" -> Val(year)
       [] c = "District" -> Str(district)
       [] c = "Flood_Impact_Score" -> Val(flood)
       [] c = "Drought_Severity" -> Val(drought)
       [] c = "Cyclone_Count" -> Val(cyclone)
       [] c = "Forest_Cover_Percent" -> Val(forest)
       [] c = "AQI" -> Val(aqi)
       [] c = "Renewable_Energy_Usage_Percent" -> Val(renewable)]

ScenarioRow == Row(1995, "Dhaka", 5, 2, 1, 20, 150, 10)

RowPool == {ScenarioRow,
            Row(2000, "Cox's Bazar", 0, 0, 0, 0, 0, 0),
            Row(2019, "Rangpur", 7, 3, 2, 35, 80, 25),
            Row(-5, "dhaka", 1, 1, 1, 1, 1, 1)}

NumCells == {Val(-100), Val(1), Val(2), Val(100), NaN}

DistrictCells ==
  {Str("Dhaka"), Str("Cox's Bazar"), Str("Coxs Bazar"), Str("Rangpur"), Str("dhaka"), NaN}

MonthCells == {Val(0), Val(2), Val(3), Val(12)}

\* The cells of a table whose rows are the given ones.
DataOf(rows) == [c \in Range(InputColumns) |-> [i \in 1..Len(rows) |-> rows[i][c]]]

BaseData(n) == DataOf([i \in 1..n |-> ScenarioRow])

\* Tables of m rows in which one column varies, or whole rows do.
AqiTable(m, col) == FileOk(InputColumns, [BaseData(m) EXCEPT !["AQI"] = col])

DistrictTable(m, col) == FileOk(InputColumns, [BaseData(m) EXCEPT !["District"] = col])

RowTable(rows) == FileOk(InputColumns, DataOf(rows))

MonthTable(m, col) == FileOk(Append(InputColumns, "Month"), ("Month" :> col) @@ BaseData(m))

NoAqiTable(m) ==
  FileOk(SelectSeq(InputColumns, LAMBDA c : c # "AQI"),
         [c \in Range(InputColumns) \ {"AQI"} |-> BaseData(m)[c]])

\* The tables of up to n rows.
Tables(n) ==
  UNION {
    {AqiTable(m, col) : col \in [1..m -> NumCells]}
    \cup {DistrictTable(m, col) : col \in [1..m -> DistrictCells]}
    \cup {RowTable(rows) : rows \in [1..m -> RowPool]}
    \cup {MonthTable(m, col) : col \in [1..m -> MonthCells]}
    \cup {NoAqiTable(m)}
    : m \in 0..n}

\* The column [1, 2, 3, 4, 100], as AQI.
ScenarioTable ==
  FileOk(InputColumns,
         [BaseData(5) EXCEPT !["AQI"] = <<Val(1), Val(2), Val(3), Val(4), Val(100)>>])

Files == Tables(MaxFileRows) \cup {FileBad("FileNotFoundError"), FileBad("ParserError")}

\* The dtypes a caller's frame may declare for a table's column: what read_csv
\* infers, float64 for whole numbers as well, object for a column of None.
Dtypes(s) ==
  {InferDtype(s)}
  \cup (IF InferDtype(s) = "int64" THEN {"float64"} ELSE {})
  \cup (IF \A i \in 1..Len(s) : IsNull(s[i]) THEN {"object"} ELSE {})

\* The frame of a table under the dtypes declared for AQI and District.
FrameOf(t, aqi, district) ==
  Frame(t.columns,
        [c \in DOMAIN t.data |->
           IF c = "AQI" THEN aqi ELSE IF c = "District" THEN district
           ELSE InferDtype(t.data[c])],
        [i \in 1..Len(t.data[t.columns[1]]) |-> i - 1],
        t.data)

\* dt is a dtype the table's column c may be declared with (a column the table
\* lacks has none: one stand-in keeps the choice single).
Declares(t, c, dt) ==
  IF c \in DOMAIN t.data THEN dt \in Dtypes(t.data[c]) ELSE dt = "float64"

Fresh ==
  /\ df = NoFrame /\ cleaned_df = NoFrame /\ processed_df = NoFrame
  /\ output_file = NoFile
  /\ log = <<>>
  /\ calls = [f \in Functions |-> 0]
  /\ exc = ""
  /\ fn = "none" /\ ret = NoCall
  /\ filled_df = NoFrame

\* Run as a script: main is about to start on whatever is at input_file.
ScriptInit ==
  Fresh /\ entry = "script" /\ pc = "start" /\ file \in Files /\ arg = NoFrame

\* Imported: main does not run; the importing module holds a frame of its own.
ArgOf(t) ==
  \E aqi, district \in {"int64", "float64", "object"} :
    /\ Declares(t, "AQI", aqi) /\ Declares(t, "District", district)
    /\ arg = FrameOf(t, aqi, district)

ImportInit ==
  /\ Fresh /\ entry = "import" /\ pc = "imported" /\ file = NoFile
  /\ \/ \E m \in 0..MaxRows :
          \/ \E col \in [1..m -> NumCells] : ArgOf(AqiTable(m, col))
          \/ \E col \in [1..m -> DistrictCells] : ArgOf(DistrictTable(m, col))
          \/ \E rows \in [1..m -> RowPool] : ArgOf(RowTable(rows))
          \/ \E col \in [1..m -> MonthCells] : ArgOf(MonthTable(m, col))
          \/ ArgOf(NoAqiTable(m))
     \/ ArgOf(ScenarioTable)

Init == ScriptInit \/ ImportInit

MainNext ==
  \/ LoadStep
  \/ CleanStep
  \/ EngineerStep
  \/ SaveStep
  \/ FinishStep

Next ==
  \/ MainNext
  \/ CallCleanData
  \/ CallFeatureEngineering
  \/ CallSplitByRegion

Spec == Init /\ [][Next]_vars

\* The script alone. Python runs main's next statement: once main stands before
\* line 194 it calls save_processed_data, and once that has returned it runs line 196.
FairSpec == ScriptInit /\ [][MainNext]_vars /\ WF_vars(SaveStep) /\ WF_vars(FinishStep)

\* --------------------------------------------------------------- properties
\* The call of clean_data in this run: made by main on df, or by the importing
\* caller on arg.
CleanCalled == IF entry = "script" THEN calls["clean_data"] = 1 ELSE fn = "clean_data"

CleanIn == IF entry = "script" THEN df ELSE arg

CleanOut == IF entry = "script" THEN cleaned_df ELSE ret.val

CleanReturned == CleanCalled /\ ~CleanOut.none

FeCalled ==
  IF entry = "script" THEN calls["feature_engineering"] = 1 ELSE fn = "feature_engineering"

FeIn == IF entry = "script" THEN cleaned_df ELSE arg

FeOut == IF entry = "script" THEN processed_df ELSE ret.val

FeReturned == FeCalled /\ ~FeOut.none

Clamp(v, lo, hi) == IF Lt(v, lo) THEN lo ELSE IF Gt(v, hi) THEN hi ELSE v

Outside(v, lo, hi) == Lt(v, lo) \/ Gt(v, hi)

ScenarioColumn == <<Val(1), Val(2), Val(3), Val(4), Val(100)>>

\* C1: in the frame clean_data returns, every int64/float64 column holds
\* clamp(v, Q1 - 1.5*IQR, Q3 + 1.5*IQR) of the filled column's values v, with Q1 and
\* Q3 that column's linearly interpolated quartiles: nothing lies outside the
\* bounds, what was inside is unchanged, and [1,2,3,4,100] has Q1 = 2, Q3 = 4,
\* bounds [-1, 7] and comes back as [1,2,3,4,7].
C1_ClippedToIqrBounds ==
  CleanReturned =>
    /\ \A c \in Range(CleanIn.columns) :
         IsNumericDtype(CleanIn.dtype[c]) =>
           LET completed == filled_df.data[c]
               Q1 == Quantile(completed, 1, 4)
               Q3 == Quantile(completed, 3, 4)
               IQR == Sub(Q3, Q1)
               lower == Sub(Q1, Scale(IQR, 3, 2))
               upper == Add(Q3, Scale(IQR, 3, 2))
           IN \A i \in 1..NRows(CleanIn) :
                /\ CleanOut.data[c][i] = Clamp(completed[i], lower, upper)
                /\ ~Outside(CleanOut.data[c][i], lower, upper)
                /\ ~Outside(completed[i], lower, upper) => CleanOut.data[c][i] = completed[i]
    /\ (HasColumn(CleanIn, "AQI") /\ CleanIn.data["AQI"] = ScenarioColumn) =>
         /\ Quantile(filled_df.data["AQI"], 1, 4) = Val(2)
         /\ Quantile(filled_df.data["AQI"], 3, 4) = Val(4)
         /\ Sub(Val(2), Scale(Sub(Val(4), Val(2)), 3, 2)) = Val(-1)
         /\ Add(Val(4), Scale(Sub(Val(4), Val(2)), 3, 2)) = Val(7)
         /\ CleanOut.data["AQI"] = <<Val(1), Val(2), Val(3), Val(4), Val(7)>>

C1_Witness ==
  /\ CleanReturned
  /\ HasColumn(CleanIn, "AQI")
  /\ CleanIn.data["AQI"] = ScenarioColumn
  /\ CleanOut.data["AQI"][5] = Val(7)

\* C2: the frame clean_data returns has no missing cell in any column.
C2_NoMissingAfterClean ==
  CleanReturned =>
    \A c \in Range(CleanOut.columns) :
      \A i \in 1..NRows(CleanOut) : ~IsNull(CleanOut.data[c][i])

\* x is the k-th smallest of the non-missing numbers of s.
OrderStatistic(s, k, x) ==
  /\ \E i \in 1..Len(s) : s[i].k = "num" /\ s[i].n = x
  /\ Cardinality({i \in 1..Len(s) : s[i].k = "num" /\ s[i].n < x}) <= k - 1
  /\ Cardinality({i \in 1..Len(s) : s[i].k = "num" /\ s[i].n <= x}) >= k

\* m is the median of the non-missing numbers of s (NaN when there is none).
IsMedianOf(m, s) ==
  LET n == Len(s) - NullCount(s) IN
  IF n = 0 THEN m = NaN
  ELSE IF n % 2 = 1 THEN m.k = "num" /\ OrderStatistic(s, (n + 1) \div 2, m.n)
  ELSE /\ m.k = "num"
       /\ \E i, j \in 1..Len(s) :
            /\ s[i].k = "num" /\ s[j].k = "num"
            /\ OrderStatistic(s, n \div 2, s[i].n)
            /\ OrderStatistic(s, n \div 2 + 1, s[j].n)
            /\ 2 * m.n = s[i].n + s[j].n

\* m is a most frequent non-missing value of s, the first in code-point order
\* among those that tie.
IsLeastModeOf(m, s) ==
  /\ ~IsNull(m) /\ m \in Range(s)
  /\ \A c \in Range(s) : ~IsNull(c) =>
       /\ Count(s, c) <= Count(s, m)
       /\ Count(s, c) = Count(s, m) => SortKey(m) <= SortKey(c)

\* C3: after clean_data's fill loop, in every column a cell that was not missing is
\* unchanged; a missing cell of an int64/float64 column holds the median of the
\* column's non-missing values; a missing cell of any other column holds the
\* column's most frequent non-missing value, one fixed value (the first in sorted
\* order) when several tie.
C3_FillByMedianOrMode ==
  CleanReturned =>
    \A c \in Range(CleanIn.columns) :
      \A i \in 1..NRows(CleanIn) :
        LET before == CleanIn.data[c]
            after == filled_df.data[c]
        IN IF ~IsNull(before[i]) THEN after[i] = before[i]
           ELSE IF IsNumericDtype(CleanIn.dtype[c]) THEN IsMedianOf(after[i], before)
           ELSE IsLeastModeOf(after[i], before)

C3_Witness ==
  /\ CleanReturned
  /\ HasColumn(CleanIn, "AQI")
  /\ LET s == CleanIn.data["AQI"] IN
       /\ NullCount(s) = 1 /\ Len(s) = 3
       /\ Median(s) \notin Range(s)
       /\ \E i \in 1..Len(s) : IsNull(s[i]) /\ filled_df.data["AQI"][i] = Median(s)

IsPrefix(s, u) == Len(s) <= Len(u) /\ \A i \in 1..Len(s) : s[i] = u[i]

DerivedColumns == {"Decade", "Climate_Risk_Score", "Environmental_Health_Index", "Season"}

\* C4: clean_data returns the rows of its input, in order, under exactly the
\* input's columns; feature_engineering returns the rows of its input, in order,
\* under the input's columns, unchanged, followed only by Decade,
\* Climate_Risk_Score, Environmental_Health_Index and, only if Month is a column,
\* Season.
C4_RowsAndColumnsPreserved ==
  /\ CleanReturned =>
       /\ CleanOut.index = CleanIn.index
       /\ CleanOut.columns = CleanIn.columns
       /\ DOMAIN CleanOut.data = Range(CleanIn.columns)
       /\ \A c \in Range(CleanOut.columns) : Len(CleanOut.data[c]) = NRows(CleanIn)
  /\ FeReturned =>
       /\ FeOut.index = FeIn.index
       /\ IsPrefix(FeIn.columns, FeOut.columns)
       /\ Range(FeOut.columns) \ Range(FeIn.columns) \subseteq DerivedColumns
       /\ {"Decade", "Climate_Risk_Score", "Environmental_Health_Index"}
            \subseteq Range(FeOut.columns)
       /\ HasColumn(FeOut, "Season") => HasColumn(FeIn, "Month")
       /\ DOMAIN FeOut.data = Range(FeOut.columns)
       /\ \A c \in Range(FeIn.columns) : FeOut.data[c] = FeIn.data[c]
       /\ \A c \in Range(FeOut.columns) : Len(FeOut.data[c]) = NRows(FeIn)

C4_Witness ==
  /\ entry = "script" /\ CleanReturned /\ FeReturned
  /\ NRows(df) = MaxFileRows
  /\ cleaned_df # df
  /\ Len(processed_df.columns) = Len(df.columns) + 3

RegionNames == {"coastal", "northern", "central", "other"}

ListedDistricts ==
  Range(coastal_districts) \cup Range(northern_districts) \cup Range(central_districts)

\* C5: split_by_region puts every row of its input in exactly one of coastal,
\* northern, central and other, whole and under its own index label; the four row
\* counts add up to the input's; a row is in other exactly when its District is not,
\* character for character, a name of one of the three lists.
C5_RegionsPartitionRows ==
  (fn = "split_by_region" /\ ret.ok) =>
    LET g == ret.regions
        Labels(r) == Range(g[r].index)
        RowAt(label) == CHOOSE i \in 1..NRows(arg) : arg.index[i] = label
    IN /\ \A i \in 1..NRows(arg) :
            Cardinality({r \in RegionNames : arg.index[i] \in Labels(r)}) = 1
       /\ \A r \in RegionNames :
            /\ IsUnique(g[r].index)
            /\ Labels(r) \subseteq Range(arg.index)
            /\ g[r].columns = arg.columns
            /\ \A j \in 1..NRows(g[r]) : \A c \in Range(arg.columns) :
                 g[r].data[c][j] = arg.data[c][RowAt(g[r].index[j])]
       /\ NRows(g["coastal"]) + NRows(g["northern"]) + NRows(g["central"])
            + NRows(g["other"]) = NRows(arg)
       /\ \A i \in 1..NRows(arg) :
            arg.index[i] \in Labels("other") <=>
              ~(arg.data["District"][i].k = "str"
                /\ arg.data["District"][i].s \in ListedDistricts)
       /\ \A i \in 1..NRows(arg) :
            /\ arg.data["District"][i] = Str("Cox's Bazar") => arg.index[i] \in Labels("coastal")
            /\ arg.data["District"][i] = Str("Coxs Bazar") => arg.index[i] \in Labels("other")
            /\ arg.data["District"][i] = Str("Rangpur") => arg.index[i] \in Labels("northern")
            /\ arg.data["District"][i] = Str("Dhaka") => arg.index[i] \in Labels("central")
            /\ arg.data["District"][i] = Str("dhaka") => arg.index[i] \in Labels("other")

C5_Witness ==
  /\ fn = "split_by_region" /\ ret.ok
  /\ \A r \in RegionNames : NRows(ret.regions[r]) = 1
  /\ \E i, j \in 1..NRows(arg) :
       /\ arg.data["District"][i] = Str("Cox's Bazar")
       /\ arg.data["District"][j] \in {Str("dhaka"), Str("Coxs Bazar")}

\* C6: in the frame feature_engineering returns, every row has
\* Decade = (Year // 10) * 10 (the multiple of 10 with Decade <= Year < Decade + 10),
\* 10 * Climate_Risk_Score = 3*Flood + 3*Drought + 4*Cyclone and
\* 1000 * Environmental_Health_Index = 4*Forest + 3*(100 - AQI) + 3*Renewable, from
\* that row's cells alone; the row 1995, 5, 2, 1, 20, 150, 10 has 1990, 2.5, -0.04.
C6_DerivedColumnsMatchFormulas ==
  FeReturned =>
    \A i \in 1..NRows(FeIn) :
      LET in(c) == FeIn.data[c][i]
          out(c) == FeOut.data[c][i]
          AllNum(cs) == \A c \in cs : in(c).k = "num"
      IN /\ IF AllNum({"Year"})
            THEN /\ out("Decade").k = "num"
                 /\ out("Decade").n % (10 * Unit) = 0
                 /\ out("Decade").n <= in("Year").n
                 /\ in("Year").n < out("Decade").n + 10 * Unit
            ELSE out("Decade") = NaN
         /\ IF AllNum({"Flood_Impact_Score", "Drought_Severity", "Cyclone_Count"})
            THEN /\ out("Climate_Risk_Score").k = "num"
                 /\ 10 * out("Climate_Risk_Score").n =
                      3 * in("Flood_Impact_Score").n + 3 * in("Drought_Severity").n
                        + 4 * in("Cyclone_Count").n
            ELSE out("Climate_Risk_Score") = NaN
         /\ IF AllNum({"Forest_Cover_Percent", "AQI", "Renewable_Energy_Usage_Percent"})
            THEN /\ out("Environmental_Health_Index").k = "num"
                 /\ 1000 * out("Environmental_Health_Index").n =
                      4 * in("Forest_Cover_Percent").n + 3 * (100 * Unit - in("AQI").n)
                        + 3 * in("Renewable_Energy_Usage_Percent").n
            ELSE out("Environmental_Health_Index") = NaN
         /\ (\A c \in Range(InputColumns) : in(c) = ScenarioRow[c]) =>
              /\ out("Decade") = Val(1990)
              /\ 2 * out("Climate_Risk_Score").n = 5 * Unit
              /\ 100 * out("Environmental_Health_Index").n = (-4) * Unit

C6_Witness ==
  /\ FeReturned
  /\ \E i, j \in 1..NRows(FeIn) :
       /\ \A c \in Range(InputColumns) : FeIn.data[c][i] = ScenarioRow[c]
       /\ FeOut.data["Decade"][i] = Val(1990)
       /\ 100 * FeOut.data["Environmental_Health_Index"][i].n = (-4) * Unit
       /\ FeIn.data["Year"][j] = Val(-5)
       /\ FeOut.data["Decade"][j] = Val(-10)

\* The season of a month number under bin edges {0,2,5,8,11,12}, lowest edge included.
ClaimedSeason(m) ==
  IF m.k # "num" THEN NaN
  ELSE IF 0 <= m.n /\ m.n <= 2 * Unit THEN Str("Winter")
  ELSE IF 2 * Unit < m.n /\ m.n <= 5 * Unit THEN Str("Spring")
  ELSE IF 5 * Unit < m.n /\ m.n <= 8 * Unit THEN Str("Summer")
  ELSE IF 8 * Unit < m.n /\ m.n <= 11 * Unit THEN Str("Autumn")
  ELSE IF 11 * Unit < m.n /\ m.n <= 12 * Unit THEN Str("Winter")
  ELSE NaN

\* C7: on a frame that has the columns the formulas read, feature_engineering
\* returns; the result has a Season column if and only if the input has a Month
\* column, and then every row's Season is its month's bin label (0..2 Winter,
\* 3..5 Spring, 6..8 Summer, 9..11 Autumn, 12 Winter).
C7_SeasonIffMonth ==
  (FeCalled /\ ~FeIn.none /\ \A c \in Range(FeatureInputs) : HasColumn(FeIn, c)) =>
    /\ FeReturned
    /\ HasColumn(FeOut, "Season") <=> HasColumn(FeIn, "Month")
    /\ HasColumn(FeIn, "Month") =>
         \A i \in 1..NRows(FeIn) :
           FeOut.data["Season"][i] = ClaimedSeason(FeIn.data["Month"][i])

\* C8: when the input file cannot be read or parsed, load_data reports it and gives
\* None, nothing propagates, and main ends there: clean_data, feature_engineering
\* and save_processed_data are never invoked and no output file is written.
C8_LoadFailureHalts ==
  (entry = "script" /\ file.status # "ok" /\ pc # "start") =>
    /\ pc = "done" /\ exc = ""
    /\ df.none /\ cleaned_df.none /\ processed_df.none
    /\ log = <<"Error loading dataset">>
    /\ calls = [f \in Functions |-> IF f = "load_data" THEN 1 ELSE 0]
    /\ output_file = NoFile

C8_Witness ==
  /\ entry = "script" /\ file.status = "FileNotFoundError"
  /\ calls["load_data"] = 1 /\ pc = "done"

\* C9: clean_data returns, and raises nothing, on every frame it is called with.
C9_CleanNeverRaises == (CleanCalled /\ ~CleanIn.none) => CleanReturned

Completed ==
  /\ pc = "done" /\ exc = ""
  /\ calls["save_processed_data"] = 1
  /\ Len(log) > 0 /\ log[Len(log)] = "Preprocessing completed successfully!"

\* C10: save_processed_data is invoked at most once, and only once load_data,
\* clean_data and feature_engineering have returned; whenever they have, main goes
\* on to invoke it, nothing propagates from it, and main prints the completion
\* report, whether the file was written or not.
C10_SavedOnceThenCompleted ==
  /\ [](/\ calls["save_processed_data"] <= 1
        /\ calls["save_processed_data"] = 1 =>
             /\ ~df.none /\ ~cleaned_df.none /\ ~processed_df.none
             /\ calls["load_data"] = 1 /\ calls["clean_data"] = 1
             /\ calls["feature_engineering"] = 1
             /\ exc = ""
        /\ pc = "done" /\ ~processed_df.none => Completed)
  /\ (entry = "script" /\ pc = "engineered") ~> Completed

C10_Witness ==
  /\ Completed
  /\ output_file = NoFile
  /\ Contains(log, "Error saving processed data")

====
